---- MODULE Spec2Model ----
(***************************************************************************)
(* One call of a shim generated by wiggle's define_func                    *)
(* (crates/wiggle/generate/src/funcs.rs).  The interface function the shim *)
(* was generated for is fixed in the initial state; the raw ABI words, the *)
(* handler's outcome and the outcomes of the context's conversions are     *)
(* inputs chosen when the statement that consumes them runs.               *)
(***************************************************************************)
EXTENDS Integers, Sequences, FiniteSets, TLC

VARIABLES func, pc, bound, ptrs, hres, mem, ret, span, trace, gerr, nposted, attempt

vars == <<func, pc, bound, ptrs, hres, mem, ret, span, trace, gerr, nposted, attempt>>

----------------------------------------------------------------------------
(* Bounds of the model *)

\* params plus extra results of the interface function
MaxArity == 2
\* number of cells of the guest memory; offset MemSize is out of bounds
MemSize == 2

(* Value ranges of the machine types *)
MinI32 == -2147483647 - 1
MaxI32 == 2147483647

----------------------------------------------------------------------------
(* The interface function descriptor (witx::InterfaceFunc) *)

\* the arms of marshal_arg's match; "struct" stands for Struct and Union
\* (both read_conversion), "enum" for Enum, Flags and Int (try_into_conversion),
\* "s32" for the builtins that are bound by an `as` cast
NarrowTypes == {"u8", "u16", "char8", "s8", "s16"}
Types == NarrowTypes \cup {"enum", "s32", "string", "pointer", "struct", "array", "handle"}

FuncName == "f"
ParamNames == <<"a", "b", "c", "d">>
ResultNames == <<"errno", "r1", "r2", "r3", "r4">>

\* results beyond the first: func.results.iter().skip(1)
NExtra(f) == IF f.nresults > 1 THEN f.nresults - 1 ELSE 0

\* err_type = coretype.ret.map(..): the first result, when there is one
HasErrType(f) == f.nresults >= 1

NParams(f) == Len(f.params)

\* the functions a shim is generated for: a noreturn function has no
\* results, and a user-error conversion is registered for an error type only
Funcs ==
    { f \in [noreturn : BOOLEAN,
             params   : UNION { [1..n -> Types] : n \in 0..MaxArity },
             nresults : 0..(MaxArity + 1),
             userconv : BOOLEAN] :
        /\ f.noreturn => f.nresults = 0
        /\ f.userconv => f.nresults >= 1
        /\ NParams(f) + NExtra(f) <= MaxArity }

----------------------------------------------------------------------------
(* Values *)

\* values of the declared error type, and abi_ret::from on them
Errno == {"success", "badf", "inval"}
ErrnoSuccess == "success"
AbiFrom(e) == CASE e = "success" -> 0
                [] e = "badf"    -> 8
                [] e = "inval"   -> 28

NoRet == [kind |-> "none", val |-> 0, step |-> "none"]
\* the handler's outcome: what it was passed, what it returned and the guest
\* memory as it left it
NoHres == [kind |-> "none", args |-> <<>>, vals |-> <<>>, err |-> "none",
           mem |-> [a \in 0..(MemSize - 1) |-> 0]]
NoGerr == [funcname |-> "none", location |-> "none", cause |-> "none", out |-> "none"]

\* the last argument binding tried: position, raw words, outcome
NoAttempt == [i |-> 0, raw |-> <<0, 0>>, ok |-> FALSE]

\* values the handler returns for the extra results, and the value a handler
\* stores when it writes guest memory through one of its arguments
RetVals == {7, 8}
HandlerMarks == {9}

\* number of variants of the enum type of an "enum" parameter
EnumVariants == 2

----------------------------------------------------------------------------
(* Guest memory (wiggle::GuestMemory / GuestPtr): cells 0..MemSize-1 *)

InBounds(off) == 0 <= off /\ off < MemSize

\* GuestPtr::<T>::new(memory, off).read()
GuestPtrRead(m, off) ==
    IF InBounds(off) THEN [ok |-> TRUE, n |-> m[off]] ELSE [ok |-> FALSE, n |-> 0]

\* GuestPtr::write(val)
GuestPtrWrite(m, off, v) ==
    IF InBounds(off) THEN [ok |-> TRUE, mem |-> [m EXCEPT ![off] = v]]
    ELSE [ok |-> FALSE, mem |-> m]

----------------------------------------------------------------------------
(* marshal_arg: one binding statement per parameter *)

\* representable range of the target type of a checked conversion
Lo(ty) == CASE ty \in {"u8", "u16", "char8", "enum"} -> 0
            [] ty = "s8"  -> -128
            [] ty = "s16" -> -32768
Hi(ty) == CASE ty \in {"u8", "char8"} -> 255
            [] ty = "u16"  -> 65535
            [] ty = "s8"   -> 127
            [] ty = "s16"  -> 32767
            [] ty = "enum" -> EnumVariants - 1

BadVal == [shape |-> "none", n |-> 0, len |-> 0]
IntVal(ty, n) == [shape |-> ty, n |-> n, len |-> 0]
Bound(v) == [ok |-> TRUE, val |-> v]
Failed == [ok |-> FALSE, val |-> BadVal]

\* `name as i32` where name is a word of the core ABI, itself an i32
\* (MinI32..MaxI32): the cast changes nothing
AsI32(w) == w

\* a narrowing `as` cast in place of the checked conversion: never fails,
\* keeps the low byte of a word that does not fit
TryIntoTruncating(ty, w) ==
    IF Lo(ty) <= w /\ w <= Hi(ty) THEN Bound(IntVal(ty, w))
    ELSE Bound(IntVal(ty, w % 256))

\* name.try_into(): Ok(a) with a numerically equal to the word when the
\* word is representable in the target type, Err otherwise
TryInto(ty, w) ==
    IF Lo(ty) <= w /\ w <= Hi(ty) THEN Bound(IntVal(ty, w)) ELSE Failed

\* the raw words a caller may pass for a parameter of type ty: <<word, len>>,
\* len used by the two-slot shapes only
RawWords(ty) ==
    CASE ty \in NarrowTypes ->
            { <<w, 0>> : w \in {MinI32, Lo(ty) - 1, Lo(ty), 0, Hi(ty), Hi(ty) + 1, MaxI32} }
      [] ty = "enum"    -> { <<w, 0>> : w \in {-1, EnumVariants - 1, EnumVariants} }
      [] ty = "s32"     -> { <<-1, 0>> }
      [] ty = "handle"  -> { <<3, 0>> }
      [] ty = "pointer" -> { <<0, 0>>, <<MemSize, 0>> }
      [] ty = "struct"  -> { <<0, 0>>, <<MemSize, 0>> }
      [] ty \in {"string", "array"} -> { <<0, 1>>, <<MemSize - 1, 2>> }

\* a marshal_arg whose String and Array arms check the range of the
\* reference against the memory when they build it
MarshalArgEagerSlices(ty, raw, m) ==
    CASE ty \in {"enum", "u8", "u16", "char8"} -> TryInto(ty, raw[1])
      [] ty \in {"s8", "s16"} -> TryInto(ty, AsI32(raw[1]))
      [] ty = "s32"     -> Bound(IntVal(ty, AsI32(raw[1])))
      [] ty = "string"  ->
            IF raw[1] + raw[2] <= MemSize
            THEN Bound([shape |-> "str", n |-> raw[1], len |-> raw[2]]) ELSE Failed
      [] ty = "pointer" -> Bound([shape |-> "ptr", n |-> raw[1], len |-> 0])
      [] ty = "array"   ->
            IF raw[1] + raw[2] <= MemSize
            THEN Bound([shape |-> "slice", n |-> raw[1], len |-> raw[2]]) ELSE Failed
      [] ty = "handle"  -> Bound([shape |-> "handle", n |-> raw[1], len |-> 0])
      [] ty = "struct"  ->
            LET r == GuestPtrRead(m, raw[1])
            IN  IF r.ok THEN Bound([shape |-> "struct", n |-> r.n, len |-> 0]) ELSE Failed

\* a marshal_arg whose Struct/Union arm builds the pointer without reading
\* through it, as the Pointer arm does
MarshalArgLazyStruct(ty, raw, m) ==
    CASE ty \in {"enum", "u8", "u16", "char8"} -> TryInto(ty, raw[1])
      [] ty \in {"s8", "s16"} -> TryInto(ty, AsI32(raw[1]))
      [] ty = "s32"     -> Bound(IntVal(ty, AsI32(raw[1])))
      [] ty = "string"  -> Bound([shape |-> "str", n |-> raw[1], len |-> raw[2]])
      [] ty = "pointer" -> Bound([shape |-> "ptr", n |-> raw[1], len |-> 0])
      [] ty = "array"   -> Bound([shape |-> "slice", n |-> raw[1], len |-> raw[2]])
      [] ty = "handle"  -> Bound([shape |-> "handle", n |-> raw[1], len |-> 0])
      [] ty = "struct"  -> Bound([shape |-> "struct", n |-> raw[1], len |-> 0])

MarshalArg(ty, raw, m) ==
    CASE ty \in {"enum", "u8", "u16", "char8"} -> TryInto(ty, raw[1])
      [] ty \in {"s8", "s16"} -> TryInto(ty, AsI32(raw[1]))
      [] ty = "s32"     -> Bound(IntVal(ty, AsI32(raw[1])))
      [] ty = "string"  -> Bound([shape |-> "str", n |-> raw[1], len |-> raw[2]])
      [] ty = "pointer" -> Bound([shape |-> "ptr", n |-> raw[1], len |-> 0])
      [] ty = "array"   -> Bound([shape |-> "slice", n |-> raw[1], len |-> raw[2]])
      [] ty = "handle"  -> Bound([shape |-> "handle", n |-> raw[1], len |-> 0])
      [] ty = "struct"  ->
            LET r == GuestPtrRead(m, raw[1])
            IN  IF r.ok THEN Bound([shape |-> "struct", n |-> r.n, len |-> 0]) ELSE Failed

----------------------------------------------------------------------------
(* The shim: positions and exits *)

Ev(name, n) == <<name, n>>

\* a shim assembled without #log_marshalled_args
PhaseAfterPreNoLog(f) == "call"

\* the statement that follows the last result pre-call statement
PhaseAfterPre(f) == IF NParams(f) > 0 THEN "log" ELSE "call"

\* a shim assembled without the call of the trait method
PhaseAfterArgsSkipsHandler(f) == "success"

\* a shim assembled without #(#marshal_rets_pre)*
PhaseAfterArgsNoPre(f) == PhaseAfterPre(f)

\* the statement that follows the last argument binding
PhaseAfterArgs(f) ==
    IF ~f.noreturn /\ NExtra(f) > 0 THEN "pre" ELSE PhaseAfterPre(f)
\* the statement that follows the handler's match
PhaseAfterHandler(f) == IF NExtra(f) > 0 THEN "post" ELSE "success"

\* an exit that leaves the scope entered when the shim panics
FinishLeaksOnPanic(r, evs) ==
    /\ ret' = r
    /\ pc' = "done"
    /\ span' = IF r.kind = "panic" THEN span ELSE "closed"
    /\ trace' = trace \o evs
                      \o (IF r.kind = "panic" THEN <<>> ELSE <<Ev("span_exit", 0)>>)

\* every exit of the shim body drops _enter and _span
Finish(r, evs) ==
    /\ ret' = r
    /\ pc' = "done"
    /\ span' = "closed"
    /\ trace' = trace \o evs \o <<Ev("span_exit", 0)>>

OkRet(v, step) == [kind |-> "ok", val |-> v, step |-> step]
UnitRet == [kind |-> "unit", val |-> 0, step |-> "success"]
TrapRet(step) == [kind |-> "trap", val |-> 0, step |-> step]
\* panic!: the shim returns nothing; unwinding drops _enter and _span
PanicRet == [kind |-> "panic", val |-> 0, step |-> "panic"]

\* an error_handling that takes the conversion branch whether or not the
\* function declares an error type
ErrorHandlingAlwaysConverts(location, evs) ==
    \E err \in Errno :
        /\ gerr' = [funcname |-> FuncName, location |-> location,
                    cause |-> "validation", out |-> err]
        /\ Finish(OkRet(AbiFrom(err), "guest_err"), evs \o <<Ev("guest_conv", 0)>>)

\* an error_handling that ignores the declared error type
ErrorHandlingAlwaysPanics(location, evs) ==
    /\ gerr' = gerr
    /\ Finish(PanicRet, evs \o <<Ev("panic", 0)>>)

\* error_handling(location): with a declared error type the failure goes
\* through GuestErrorConversion and is returned; without one the shim panics
ErrorHandling(location, evs) ==
    IF HasErrType(func)
    THEN \E err \in Errno :
            /\ gerr' = [funcname |-> FuncName, location |-> location,
                        cause |-> "validation", out |-> err]
            /\ Finish(OkRet(AbiFrom(err), "guest_err"), evs \o <<Ev("guest_conv", 0)>>)
    ELSE /\ gerr' = gerr
         /\ Finish(PanicRet, evs \o <<Ev("panic", 0)>>)

Init ==
    /\ func \in Funcs
    /\ pc = "start"
    /\ bound = <<>>
    /\ ptrs = <<>>
    /\ hres = NoHres
    /\ mem = [a \in 0..(MemSize - 1) |-> 0]
    /\ ret = NoRet
    /\ span = "none"
    /\ trace = <<>>
    /\ gerr = NoGerr
    /\ nposted = 0
    /\ attempt = NoAttempt

\* let _span = span!(..); let _enter = _span.enter();
Enter ==
    /\ pc = "start"
    /\ span' = "open"
    /\ trace' = Append(trace, Ev("span_enter", 0))
    /\ pc' = IF NParams(func) > 0 THEN "args" ELSE PhaseAfterArgs(func)
    /\ UNCHANGED <<func, bound, ptrs, hres, mem, ret, gerr, nposted, attempt>>

\* a binding whose Err arm does not leave the shim: the failure is noted
\* and the next statement runs
MarshalArgStepContinues ==
    /\ pc = "args"
    /\ LET i == Len(bound) + 1
           ty == func.params[i]
       IN  \E raw \in RawWords(ty) :
             LET r == MarshalArg(ty, raw, mem)
             IN  /\ attempt' = [i |-> i, raw |-> raw, ok |-> r.ok]
                 /\ bound' = Append(bound, [ty |-> ty, raw |-> raw, val |-> r.val])
                 /\ trace' = Append(trace, Ev(IF r.ok THEN "arg" ELSE "arg_fail", i))
                 /\ pc' = IF i = NParams(func) THEN PhaseAfterArgs(func) ELSE "args"
                 /\ UNCHANGED <<ret, span, gerr>>
    /\ UNCHANGED <<func, ptrs, hres, mem, nposted>>

\* #(#marshal_args)*: the binding of the next parameter
MarshalArgStep ==
    /\ pc = "args"
    /\ LET i == Len(bound) + 1
           ty == func.params[i]
       IN  \E raw \in RawWords(ty) :
             LET r == MarshalArg(ty, raw, mem)
             IN  /\ attempt' = [i |-> i, raw |-> raw, ok |-> r.ok]
                 /\ IF r.ok
                    THEN /\ bound' = Append(bound, [ty |-> ty, raw |-> raw, val |-> r.val])
                         /\ trace' = Append(trace, Ev("arg", i))
                         /\ pc' = IF i = NParams(func) THEN PhaseAfterArgs(func) ELSE "args"
                         /\ UNCHANGED <<ret, span, gerr>>
                    ELSE /\ ErrorHandling(ParamNames[i], <<Ev("arg_fail", i)>>)
                         /\ bound' = bound
    /\ UNCHANGED <<func, ptrs, hres, mem, nposted>>

\* raw offsets a caller may pass in the output-pointer slot of an extra result
ResPtrs == 0..MemSize

\* #(#marshal_rets_pre)*: let ptr = GuestPtr::new(memory, ptr as u32);
MarshalRetPre ==
    /\ pc = "pre"
    /\ LET k == Len(ptrs) + 1
       IN  \E p \in ResPtrs :
             /\ ptrs' = Append(ptrs, p)
             /\ trace' = Append(trace, Ev("pre", k))
             /\ pc' = IF k = NExtra(func) THEN PhaseAfterPre(func) ELSE "pre"
    /\ UNCHANGED <<func, bound, hres, mem, ret, span, gerr, nposted, attempt>>

\* #log_marshalled_args: present only when the function has parameters
LogMarshalledArgs ==
    /\ pc = "log"
    /\ NParams(func) > 0
    /\ trace' = Append(trace, Ev("log_args", 0))
    /\ pc' = "call"
    /\ UNCHANGED <<func, bound, ptrs, hres, mem, ret, span, gerr, nposted, attempt>>

----------------------------------------------------------------------------
(* The handler (the trait method) and what follows it *)

\* domain errors of the handler: the registered user error type when a
\* conversion is registered, the declared error type itself otherwise, and
\* the unit error of a function without results
UserErrs == {"io", "perm"}
HandlerErrs(f) ==
    IF ~HasErrType(f) THEN {"unit"}
    ELSE IF f.userconv THEN UserErrs ELSE Errno

\* #(#trait_args),*: the bound values, in declaration order
TraitArgs(b) == [i \in 1..Len(b) |-> b[i].val]

\* guest memory as the handler may leave it: it can store through any of
\* its pointer-shaped arguments that is in bounds
HandlerMems(m, args) ==
    {m} \cup { [m EXCEPT ![args[i].n] = v] :
                i \in { j \in 1..Len(args) :
                          /\ args[j].shape \in {"ptr", "str", "slice"}
                          /\ InBounds(args[j].n) },
                v \in HandlerMarks }

\* noreturn: let trap = Trait::f(ctx, args); Err(trap)
CallNoreturn ==
    /\ \E m2 \in HandlerMems(mem, TraitArgs(bound)) : mem' = m2
    /\ hres' = [kind |-> "trap", args |-> TraitArgs(bound), vals |-> <<>>, err |-> "none",
                mem |-> mem']
    /\ Finish(TrapRet("noreturn"), <<Ev("handler", 0)>>)
    /\ UNCHANGED <<func, bound, ptrs, gerr, nposted, attempt>>

\* Ok(bindings) => { trait_rets }: the extra results are traced when there
\* are any, and the shim goes on to the post-call statements
HandlerOk ==
    /\ \E m2 \in HandlerMems(mem, TraitArgs(bound)) : mem' = m2
    /\ \E vals \in [1..NExtra(func) -> RetVals] :
          hres' = [kind |-> "ok", args |-> TraitArgs(bound), vals |-> vals, err |-> "none",
                   mem |-> mem']
    /\ trace' = trace \o <<Ev("handler", 0)>>
                      \o (IF func.nresults >= 2 THEN <<Ev("log_rets", 0)>> ELSE <<>>)
    /\ pc' = PhaseAfterHandler(func)
    /\ UNCHANGED <<func, bound, ptrs, ret, span, gerr, nposted, attempt>>

\* an Err(e) arm that does not return
PhaseAfterHandlerErrFallsThrough(f) == PhaseAfterHandler(f)

\* the position after the Err(e) arm: ret_err when the function declares an
\* error type; without one the arm is `()` and the match falls through
PhaseAfterHandlerErr(f) == IF HasErrType(f) THEN "ret_err" ELSE PhaseAfterHandler(f)

\* Err(e) => { ret_err }
HandlerErr ==
    /\ \E m2 \in HandlerMems(mem, TraitArgs(bound)) : mem' = m2
    /\ \E e \in HandlerErrs(func) :
          hres' = [kind |-> "err", args |-> TraitArgs(bound), vals |-> <<>>, err |-> e,
                   mem |-> mem']
    /\ trace' = Append(trace, Ev("handler", 0))
    /\ pc' = PhaseAfterHandlerErr(func)
    /\ UNCHANGED <<func, bound, ptrs, ret, span, gerr, nposted, attempt>>

\* the shim body of an ordinary function emitted for a noreturn one
CallHandlerIgnoresNoreturn ==
    /\ pc = "call"
    /\ (HandlerOk \/ HandlerErr)

\* let trap = Trait::f(..) / match Trait::f(..) { Ok(..) => .., Err(e) => .. }
CallHandler ==
    /\ pc = "call"
    /\ IF func.noreturn THEN CallNoreturn ELSE (HandlerOk \/ HandlerErr)

\* a conversion that goes through a fallible transform even when none is
\* registered for the error type
ConversionAlwaysFallible(f, e) ==
    { OkRet(AbiFrom(out), "user_err") : out \in Errno } \cup { TrapRet("user_err") }

\* a conversion that loses the handler's error
ConversionDropsError(f, e) ==
    IF f.userconv
    THEN { OkRet(AbiFrom(out), "user_err") : out \in Errno } \cup { TrapRet("user_err") }
    ELSE { OkRet(AbiFrom(ErrnoSuccess), "user_err") }

\* outcomes of the conversion of a handler error e: Ok(e) when no user
\* conversion is registered, whatever UserErrorConversion returns otherwise
Conversion(f, e) ==
    IF f.userconv
    THEN { OkRet(AbiFrom(out), "user_err") : out \in Errno } \cup { TrapRet("user_err") }
    ELSE { OkRet(AbiFrom(e), "user_err") }

\* ret_err: let e = conversion; event!(..); match e { Ok(e) => return
\* Ok(abi_ret::from(e)), Err(e) => return Err(e) }
RetErr ==
    /\ pc = "ret_err"
    /\ \E r \in Conversion(func, hres.err) : Finish(r, <<Ev("log_err", 0)>>)
    /\ UNCHANGED <<func, bound, ptrs, hres, mem, gerr, nposted, attempt>>

\* a tag built from func.results without the skip(1): it names the result
\* before the one that failed
ResultLocationNoSkip(k) == ResultNames[k] \o ":result_ptr_mut"

\* error_handling(&format!("{}:result_ptr_mut", result.name)) of the k-th
\* extra result
ResultLocation(k) == ResultNames[k + 1] \o ":result_ptr_mut"

\* post-call statements that note a failed write and go on
MarshalRetPostKeepsGoing ==
    /\ pc = "post"
    /\ LET k == nposted + 1
           w == GuestPtrWrite(mem, ptrs[k], hres.vals[k])
       IN  /\ mem' = w.mem
           /\ nposted' = k
           /\ trace' = Append(trace, Ev(IF w.ok THEN "write" ELSE "write_fail", k))
           /\ pc' = IF k = NExtra(func) THEN "success" ELSE "post"
           /\ UNCHANGED <<ret, span, gerr>>
    /\ UNCHANGED <<func, bound, ptrs, hres, attempt>>

\* #(#marshal_rets_post)*: if let Err(e) = ptr.write(val) { error_handling }
MarshalRetPost ==
    /\ pc = "post"
    /\ LET k == nposted + 1
           w == GuestPtrWrite(mem, ptrs[k], hres.vals[k])
       IN  IF w.ok
           THEN /\ mem' = w.mem
                /\ nposted' = k
                /\ trace' = Append(trace, Ev("write", k))
                /\ pc' = IF k = NExtra(func) THEN "success" ELSE "post"
                /\ UNCHANGED <<ret, span, gerr>>
           ELSE /\ ErrorHandling(ResultLocation(k), <<Ev("write_fail", k)>>)
                /\ UNCHANGED <<mem, nposted>>
    /\ UNCHANGED <<func, bound, ptrs, hres, attempt>>

\* a #success that never reaches its return
SuccessSpins ==
    /\ pc = "success"
    /\ UNCHANGED vars

\* #success: Ok(abi_ret::from(GuestErrorType::success())), or Ok(())
Success ==
    /\ pc = "success"
    /\ IF HasErrType(func)
       THEN Finish(OkRet(AbiFrom(ErrnoSuccess), "success"), <<Ev("log_success", 0)>>)
       ELSE Finish(UnitRet, <<>>)
    /\ UNCHANGED <<func, bound, ptrs, hres, mem, gerr, nposted, attempt>>

Next ==
    \/ Enter
    \/ MarshalArgStep
    \/ MarshalRetPre
    \/ LogMarshalledArgs
    \/ CallHandler
    \/ RetErr
    \/ MarshalRetPost
    \/ Success

Spec == Init /\ [][Next]_vars

\* the shim is synchronous straight-line code run to completion on the
\* calling thread, and the handler and the conversions return: a call that
\* can take a step takes one
FairSpec == Spec /\ WF_vars(Next)

----------------------------------------------------------------------------
(* Reading the trace *)

Named(name) == { n \in 1..Len(trace) : trace[n][1] = name }
Has(name) == Named(name) # {}
First(name) == CHOOSE n \in Named(name) : \A m \in Named(name) : n <= m
\* the indices carried by the events called name, in the order they happened
Nums(name) ==
    LET s == SelectSeq(trace, LAMBDA e : e[1] = name)
    IN  [j \in 1..Len(s) |-> s[j][2]]
Iota(n) == [j \in 1..n |-> j]

Done == pc = "done"
InitMem == [a \in 0..(MemSize - 1) |-> 0]
AllArgsBound == Len(bound) = NParams(func) /\ ~Has("arg_fail")
HandlerCalled == Has("handler")

----------------------------------------------------------------------------
(* Claims *)

\* C1: for a non-noreturn function with a declared error type, a finished
\* call was ended by the success step, returning Ok of the ABI encoding of
\* the canonical success value, if and only if every argument was bound, the
\* handler returned Ok and every post-call write succeeded; the success step
\* is never reached otherwise.
C1_SuccessIff ==
    (~func.noreturn /\ HasErrType(func)) =>
        /\ Done =>
             ( (ret.step = "success")
               <=> (AllArgsBound /\ hres.kind = "ok" /\ nposted = NExtra(func)) )
        /\ (Done /\ ret.step = "success") =>
             (ret.kind = "ok" /\ ret.val = AbiFrom(ErrnoSuccess))
        /\ pc = "success" =>
             (AllArgsBound /\ hres.kind = "ok" /\ nposted = NExtra(func))

C1_Witness ==
    /\ Done /\ ~func.noreturn /\ HasErrType(func)
    /\ NParams(func) >= 1 /\ NExtra(func) >= 1
    /\ ret = OkRet(AbiFrom(ErrnoSuccess), "success")
    /\ nposted = NExtra(func)

\* C2 as stated: every finished call of a noreturn function ended with the
\* shim returning Err(trap).
C2_AlwaysTrapReturn ==
    (func.noreturn /\ Done) => ret.kind = "trap"

\* C2 amended: a finished call of a noreturn function never ended in an Ok
\* return; it ended with Err(trap) exactly when every argument was bound
\* (the handler was then invoked), and with a panic of the shim when an
\* argument binding failed.
C2_NoreturnNeverOk ==
    (func.noreturn /\ Done) =>
        /\ ret.kind \in {"trap", "panic"}
        /\ (ret.kind = "trap") <=> (AllArgsBound /\ HandlerCalled)
        /\ (ret.kind = "panic") <=> Has("arg_fail")

C2_Witness ==
    /\ func.noreturn /\ Done /\ NParams(func) >= 1
    /\ ret.kind = "trap" /\ hres.kind = "trap"

\* C3: arguments are bound in declaration order, and once the binding of
\* parameter i has failed the call is over: no later parameter is bound, no
\* result pre-call statement runs, the handler is not invoked and guest
\* memory is as it was at entry.
C3_ShortCircuit ==
    /\ Nums("arg") = Iota(Len(bound))
    /\ \A n \in Named("arg_fail") :
          /\ trace[n][2] = Len(bound) + 1
          /\ \A m \in Named("arg") : m < n
          /\ ~Has("pre") /\ ~HandlerCalled /\ ~Has("write")
          /\ hres = NoHres /\ ptrs = <<>>
          /\ mem = InitMem
          /\ Done

C3_Witness ==
    /\ Done /\ Has("arg_fail")
    /\ Len(bound) = 1 /\ NParams(func) = 2
    /\ ret.kind = "ok"

\* C4: in a call of a non-noreturn function that reaches the handler all
\* NExtra pre-call pointer constructions happened before it, in declaration
\* order; a post-call write is attempted only after the handler returned
\* Ok; and the writes are attempted in declaration order, write k only
\* after write k-1 succeeded.
C4_WritebackOrder ==
    /\ (HandlerCalled /\ ~func.noreturn) =>
          /\ Nums("pre") = Iota(NExtra(func))
          /\ \A n \in Named("pre") : n < First("handler")
    /\ \A n \in Named("write") \cup Named("write_fail") :
          /\ HandlerCalled /\ First("handler") < n
          /\ hres.kind = "ok"
    /\ pc = "post" => hres.kind = "ok"
    /\ Nums("write") = Iota(nposted)
    /\ \A n \in Named("write_fail") :
          /\ trace[n][2] = nposted + 1
          /\ \A m \in Named("write") : m < n

C4_Witness ==
    /\ Done /\ NExtra(func) = 2 /\ nposted = 2
    /\ Nums("pre") = <<1, 2>> /\ Nums("write") = <<1, 2>>
    /\ ptrs[1] # ptrs[2]

\* the last of the first n extra results whose output pointer is that of
\* result k
LastWriter(k, n) ==
    CHOOSE j \in k..n : ptrs[j] = ptrs[k] /\ \A l \in (j + 1)..n : ptrs[l] # ptrs[k]

\* C5: with two or more extra results, when the handler returned Ok and the
\* write of extra result j failed, the results before j were written, in
\* order, and their cells hold what was written, no result from j on was
\* written, and the shim returned Ok of the ABI encoding of what the
\* guest-error conversion made of the failure tagged with result j.
C5_PartialWriteback ==
    \A n \in Named("write_fail") :
        LET j == trace[n][2]
        IN  NExtra(func) >= 2 =>
              /\ hres.kind = "ok"
              /\ Nums("write") = Iota(j - 1)
              /\ \A k \in 1..(j - 1) :
                    /\ InBounds(ptrs[k])
                    /\ mem[ptrs[k]] = hres.vals[LastWriter(k, j - 1)]
              /\ ~InBounds(ptrs[j])
              /\ Done
              /\ ret = OkRet(AbiFrom(gerr.out), "guest_err")
              /\ gerr.cause = "validation"
              /\ gerr.location = ResultNames[j + 1] \o ":result_ptr_mut"

C5_Witness ==
    /\ Done /\ NExtra(func) = 2
    /\ Nums("write_fail") = <<2>> /\ Nums("write") = <<1>>
    /\ mem[ptrs[1]] = hres.vals[1]
    /\ ret.step = "guest_err"

\* C6 as stated: with a declared error type, a call in which the handler
\* returned a domain error ended with a normal return of an ABI value,
\* never with a trap.
C6_NeverTrap ==
    (HasErrType(func) /\ Done /\ hres.kind = "err") => ret.kind = "ok"

\* C6 amended: with a declared error type, a call in which the handler
\* returned a domain error e ended in ret_err with Ok of the ABI encoding
\* of e itself when no user-error conversion is registered, and with what
\* the registered conversion returned otherwise: Ok of the encoding of a
\* value of the declared error type, or the trap the conversion returned.
C6_DomainError ==
    (HasErrType(func) /\ Done /\ hres.kind = "err") =>
        /\ ret.step = "user_err"
        /\ ~Has("write") /\ ~Has("log_success")
        /\ ~func.userconv => ret = OkRet(AbiFrom(hres.err), "user_err")
        /\ func.userconv =>
              \/ ret.kind = "trap"
              \/ ret.kind = "ok" /\ \E out \in Errno : ret.val = AbiFrom(out)

C6_Witness ==
    /\ HasErrType(func) /\ Done /\ hres.kind = "err"
    /\ func.userconv /\ hres.err = "io"
    /\ ret = OkRet(AbiFrom("badf"), "user_err")

\* C7: for a non-noreturn function without results, a call in which the
\* handler returned a failure does not end with the normal no-payload
\* return Ok(()).
C7_FailureNotOk ==
    (~func.noreturn /\ ~HasErrType(func) /\ Done /\ hres.kind = "err")
        => ret.kind # "unit"

\* C8 as stated: for a function without declared error type a failed
\* argument binding ends the call with the shim returning Err(trap), the
\* handler not invoked.
C8_MarshalFailureTraps ==
    (~HasErrType(func) /\ Done /\ Has("arg_fail")) =>
        (ret.kind = "trap" /\ ~HandlerCalled)

\* C8 amended: for a function without declared error type a failed
\* argument binding ends the call with a panic of the shim: nothing is
\* returned, neither an ABI value nor Err(trap), no guest-error conversion
\* runs and the handler is not invoked.
C8_MarshalFailurePanics ==
    (~HasErrType(func) /\ Has("arg_fail")) =>
        /\ Done
        /\ ret = PanicRet
        /\ ~HandlerCalled /\ hres = NoHres
        /\ gerr = NoGerr

C8_Witness ==
    /\ ~HasErrType(func) /\ ~func.noreturn /\ Done
    /\ Nums("arg_fail") = <<2>>
    /\ ret = PanicRet

\* C9 as stated: for every function, zero parameters included, a call in
\* which every argument was bound emits the argument trace exactly once,
\* between the last binding and the handler, and a call with a failed
\* binding never emits it.
C9_TraceOnceAlways ==
    /\ HandlerCalled =>
          /\ Cardinality(Named("log_args")) = 1
          /\ First("log_args") < First("handler")
          /\ \A n \in Named("arg") : n < First("log_args")
    /\ Has("arg_fail") => ~Has("log_args")

\* C9 amended: for every function with at least one parameter, a call in
\* which every argument was bound emits the argument trace exactly once,
\* after the last binding (and the result pre-call statements) and before
\* the handler; a call with a failed binding never emits it, and a
\* function without parameters never emits it.
C9_TraceOnce ==
    /\ (HandlerCalled /\ NParams(func) > 0) =>
          /\ Cardinality(Named("log_args")) = 1
          /\ First("log_args") < First("handler")
          /\ \A n \in Named("arg") \cup Named("pre") : n < First("log_args")
    /\ (pc = "call" /\ NParams(func) > 0) => Cardinality(Named("log_args")) = 1
    /\ Has("arg_fail") => ~Has("log_args")
    /\ NParams(func) = 0 => ~Has("log_args")
    /\ Has("log_args") => AllArgsBound

C9_Witness ==
    /\ HandlerCalled /\ NParams(func) = 2
    /\ Cardinality(Named("log_args")) = 1
    /\ First("log_args") + 1 = First("handler")

\* representable range of the narrow integer types
NarrowMin(ty) == CASE ty \in {"u8", "u16", "char8"} -> 0
                   [] ty = "s8" -> -128
                   [] ty = "s16" -> -32768
NarrowMax(ty) == CASE ty \in {"u8", "char8"} -> 255
                   [] ty = "u16" -> 65535
                   [] ty = "s8" -> 127
                   [] ty = "s16" -> 32767
Representable(ty, w) == NarrowMin(ty) <= w /\ w <= NarrowMax(ty)

\* C10: for a parameter of type u8, u16, char8, s8 or s16 and every raw
\* word w, the binding fails (validation-error branch, handler not
\* invoked) when w is outside the range of the type, and succeeds with a
\* value numerically equal to w, which is what the handler receives, when
\* w is inside it.
C10_NarrowInts ==
    /\ (attempt.i > 0 /\ func.params[attempt.i] \in NarrowTypes) =>
          LET ty == func.params[attempt.i]
              w == attempt.raw[1]
          IN  /\ attempt.ok <=> Representable(ty, w)
              /\ attempt.ok => bound[attempt.i].val = IntVal(ty, w)
              /\ ~attempt.ok => (Has("arg_fail") /\ Done /\ ~HandlerCalled
                                  /\ Len(bound) = attempt.i - 1)
    /\ \A i \in 1..Len(bound) :
          bound[i].ty \in NarrowTypes =>
              /\ Representable(bound[i].ty, bound[i].raw[1])
              /\ bound[i].val.n = bound[i].raw[1]
              /\ HandlerCalled => hres.args[i].n = bound[i].raw[1]

C10_Witness ==
    /\ HandlerCalled /\ NParams(func) = 2
    /\ func.params = <<"s8", "u16">>
    /\ hres.args[1].n = -128 /\ hres.args[2].n = 65535

\* position of the failed argument binding, 0 when none failed
FailedArg == IF Has("arg_fail") THEN trace[First("arg_fail")][2] ELSE 0

\* C11 as stated: with a declared error type, an out-of-bounds offset in a
\* pointer-shaped argument (a Pointer/ConstPointer, or a Struct/Union passed
\* by reference) is never bound: the binding fails, the shim returns the
\* encoding of the guest-error conversion and the handler is not invoked.
C11_OobPointerRejected ==
    HasErrType(func) =>
        /\ \A i \in 1..Len(bound) :
              bound[i].ty \in {"pointer", "struct"} => InBounds(bound[i].raw[1])
        /\ (attempt.i > 0 /\ func.params[attempt.i] \in {"pointer", "struct"}
              /\ ~InBounds(attempt.raw[1])) =>
                (~attempt.ok /\ Done /\ ret.step = "guest_err" /\ ~HandlerCalled)

\* C11 amended: with a declared error type, an out-of-bounds offset in a
\* Struct/Union argument, which is read when it is bound, fails the binding:
\* the shim returns the encoding of the guest-error conversion, tagged with
\* the parameter, and the handler is not invoked.  A Pointer/ConstPointer
\* argument is bound without any check, whatever its offset, and is handed
\* to the handler as it is.
C11_OobStructRejected ==
    HasErrType(func) =>
        /\ \A i \in 1..Len(bound) :
              /\ bound[i].ty = "struct" =>
                    (InBounds(bound[i].raw[1]) /\ bound[i].val.shape = "struct")
              /\ bound[i].ty = "pointer" =>
                    bound[i].val = [shape |-> "ptr", n |-> bound[i].raw[1], len |-> 0]
        /\ (attempt.i > 0 /\ func.params[attempt.i] = "struct"
              /\ ~InBounds(attempt.raw[1])) =>
                /\ ~attempt.ok /\ Done /\ ~HandlerCalled
                /\ FailedArg = attempt.i
                /\ ret = OkRet(AbiFrom(gerr.out), "guest_err")
                /\ gerr.location = ParamNames[attempt.i]
        /\ (attempt.i > 0 /\ func.params[attempt.i] = "pointer") => attempt.ok
        /\ (Done /\ AllArgsBound) => HandlerCalled

C11_Witness ==
    /\ HasErrType(func) /\ Done /\ ~HandlerCalled
    /\ func.params = <<"pointer", "struct">>
    /\ ~InBounds(bound[1].raw[1])
    /\ FailedArg = 2 /\ attempt.raw[1] = MemSize
    /\ ret.step = "guest_err"

\* the range offset..offset+len of a two-slot reference lies in the memory
RangeInBounds(raw) == 0 <= raw[1] /\ raw[1] + raw[2] <= MemSize

\* C12: the binding of a String or Array argument never fails and builds
\* the reference from the two words alone, whatever their range; guest
\* memory is untouched by it, no guest error is ever tagged with such a
\* parameter, the handler is invoked once every argument is bound, and a
\* failure the handler reports comes back through ret_err, no guest-error
\* conversion having run.
C12_LazySlices ==
    /\ (attempt.i > 0 /\ func.params[attempt.i] \in {"string", "array"}) => attempt.ok
    /\ \A i \in 1..Len(bound) :
          /\ bound[i].ty = "string" =>
                bound[i].val = [shape |-> "str", n |-> bound[i].raw[1], len |-> bound[i].raw[2]]
          /\ bound[i].ty = "array" =>
                bound[i].val = [shape |-> "slice", n |-> bound[i].raw[1], len |-> bound[i].raw[2]]
    /\ ~HandlerCalled => mem = InitMem
    /\ FailedArg > 0 => func.params[FailedArg] \notin {"string", "array"}
    /\ \A i \in 1..NParams(func) :
          func.params[i] \in {"string", "array"} => gerr.location # ParamNames[i]
    /\ (Done /\ AllArgsBound) => HandlerCalled
    /\ (Done /\ hres.kind = "err" /\ HasErrType(func)) =>
          (ret.step = "user_err" /\ gerr = NoGerr /\ ~Has("guest_conv"))

C12_Witness ==
    /\ Done /\ HasErrType(func)
    /\ func.params = <<"array", "string">>
    /\ ~RangeInBounds(bound[1].raw) /\ ~RangeInBounds(bound[2].raw)
    /\ hres.kind = "err" /\ hres.args[1].len = 2
    /\ ret.kind = "ok" /\ ret.step = "user_err"

\* C13: the instrumentation scope is entered before anything else happens
\* and left on every exit: it is open at every position inside the shim,
\* closed in every final state whatever the outcome (success, guest-error
\* return, handler-error return, trap, panic), and every binding, handler
\* call and write lies between its one entry and its one exit.
C13_ScopeSpansCall ==
    /\ (pc = "start") <=> (span = "none")
    /\ (pc \notin {"start", "done"}) <=> (span = "open")
    /\ Done <=> (span = "closed")
    /\ span = "none" =>
          (trace = <<>> /\ bound = <<>> /\ ptrs = <<>> /\ hres = NoHres /\ mem = InitMem)
    /\ trace # <<>> => (Named("span_enter") = {1})
    /\ Done => (Named("span_exit") = {Len(trace)})
    /\ ~Done => ~Has("span_exit")
    /\ Done => ret.kind \in {"ok", "unit", "trap", "panic"}

C13_Witness ==
    /\ Done /\ span = "closed"
    /\ ret = PanicRet /\ FailedArg = 2
    /\ trace[Len(trace)] = Ev("span_exit", 0)

\* C14: the output pointer of every extra result is validated before the
\* handler is invoked: a call with an invalid output pointer fails in the
\* pre-call statements and never reaches the handler.
C14_PointersValidatedFirst ==
    /\ HandlerCalled => \A k \in 1..Len(ptrs) : InBounds(ptrs[k])
    /\ pc \in {"log", "call"} => \A k \in 1..Len(ptrs) : InBounds(ptrs[k])
    /\ Has("write_fail") => ~HandlerCalled

\* what a handler failure leaves undone
NoPostPhase ==
    /\ pc \notin {"post", "success"}
    /\ ~Has("write") /\ ~Has("write_fail") /\ nposted = 0
    /\ mem = hres.mem
    /\ ~Has("log_rets") /\ ~Has("log_success")
    /\ ret.step # "success"

\* C15: in a call in which the handler returned a failure no post-call
\* statement runs: no extra result is written, guest memory stays as the
\* handler left it, the extra results are not traced and the success step
\* does not produce the return.
C15_NoPostOnFailure ==
    hres.kind = "err" => NoPostPhase

\* the tags of the sites of the function other than the given one
OtherTags(tag) ==
    ({ ParamNames[j] : j \in 1..NParams(func) }
       \cup { ResultNames[j] : j \in 1..func.nresults }
       \cup { ResultNames[j] \o ":result_ptr_mut" : j \in 1..func.nresults }) \ {tag}

\* C16: a guest error is built exactly when a binding or a result write
\* failed in a function with a declared error type; it carries the name of
\* the function and, as location, the name of the parameter whose binding
\* failed, or the name of the extra result whose write failed followed by
\* ":result_ptr_mut", and never the tag of another site.
C16_LocationTags ==
    /\ (gerr # NoGerr) <=> (HasErrType(func) /\ (Has("arg_fail") \/ Has("write_fail")))
    /\ gerr # NoGerr =>
          /\ gerr.funcname = "f" /\ gerr.cause = "validation"
          /\ gerr.location \notin OtherTags(gerr.location)
          /\ Has("guest_conv") /\ ret.val = AbiFrom(gerr.out)
    /\ \A n \in Named("arg_fail") :
          HasErrType(func) =>
              /\ gerr.location = ParamNames[trace[n][2]]
              /\ gerr.location \in {"a", "b", "c", "d"}
    /\ \A n \in Named("write_fail") :
          /\ gerr.location = ResultNames[trace[n][2] + 1] \o ":result_ptr_mut"
          /\ trace[n][2] = 1 => gerr.location = "r1:result_ptr_mut"
          /\ trace[n][2] = 2 => gerr.location = "r2:result_ptr_mut"
          /\ trace[n][2] = 3 => gerr.location = "r3:result_ptr_mut"

C16_Witness ==
    /\ Done /\ Nums("write_fail") = <<2>>
    /\ gerr.funcname = "f" /\ gerr.location = "r2:result_ptr_mut"

\* C17: with a declared error type and no user-error conversion registered,
\* the error e the handler returned is a value of the declared error type
\* and the shim returns Ok of the ABI encoding of e itself, never a trap.
C17_IdentityConversion ==
    (HasErrType(func) /\ ~func.userconv /\ hres.kind = "err") =>
        /\ hres.err \in Errno
        /\ pc \in {"ret_err", "done"}
        /\ Done =>
              /\ ret.kind = "ok" /\ ret.step = "user_err"
              /\ ret.val = AbiFrom(hres.err)
              /\ hres.err = "success" => ret.val = 0
              /\ hres.err = "badf" => ret.val = 8
              /\ hres.err = "inval" => ret.val = 28

C17_Witness ==
    /\ HasErrType(func) /\ ~func.userconv /\ Done
    /\ hres.kind = "err" /\ hres.err = "inval"
    /\ ret = OkRet(28, "user_err")

\* the state of the call of section 4.4 that a position of the shim is in
CallState ==
    CASE pc \in {"start", "args"} -> "Validating"
      [] pc \in {"pre", "log"}    -> "ArgsOk"
      [] pc = "call"              -> "Invoking"
      [] pc \in {"post", "success", "ret_err"} ->
            (IF hres.kind = "ok" THEN "HandlerOk" ELSE "HandlerErr")
      [] pc = "done"              -> "Returning"

\* the state of the call in which an event of the trace happens
EventRank(e) ==
    CASE e[1] = "span_enter"                      -> 0
      [] e[1] \in {"arg", "arg_fail"}             -> 1
      [] e[1] \in {"pre", "log_args"}             -> 2
      [] e[1] = "handler"                         -> 3
      [] e[1] \in {"log_rets", "write", "write_fail", "log_success", "log_err"} -> 4
      [] e[1] \in {"guest_conv", "panic", "span_exit"} -> 5

\* C18: a call goes through Validating, ArgsOk, Invoking, HandlerOk or
\* HandlerErr, Returning in this order and never back; the only exit that
\* bypasses the handler is the one of a failed binding; the handler is
\* invoked at most once, only with every argument bound, and exactly once
\* in every finished call in which every argument was bound.
C18_StateOrder ==
    /\ \A m, n \in 1..Len(trace) : m < n => EventRank(trace[m]) <= EventRank(trace[n])
    /\ Cardinality(Named("handler")) <= 1
    /\ HandlerCalled => (AllArgsBound /\ hres.kind \in {"ok", "err", "trap"})
    /\ (Done /\ AllArgsBound) => Cardinality(Named("handler")) = 1
    /\ (Done /\ ~HandlerCalled) => (Has("arg_fail") /\ ret.step \in {"guest_err", "panic"})
    /\ CallState = "Validating" =>
          (~HandlerCalled /\ ~Has("arg_fail") /\ (Len(bound) < NParams(func) \/ pc = "start"))
    /\ CallState \in {"ArgsOk", "Invoking"} => (AllArgsBound /\ hres = NoHres)
    /\ CallState = "HandlerOk" => (HandlerCalled /\ hres.kind = "ok")
    /\ CallState = "HandlerErr" => (HandlerCalled /\ hres.kind = "err")
    /\ CallState = "Returning" => ret # NoRet
    /\ ret # NoRet => CallState = "Returning"

C18_Witness ==
    /\ Done /\ NParams(func) = 1 /\ NExtra(func) = 1
    /\ [n \in 1..Len(trace) |-> trace[n][1]] =
          <<"span_enter", "arg", "pre", "log_args", "handler", "log_rets", "write",
            "log_success", "span_exit">>

\* a validation failure happened in this call: an argument conversion or an
\* eager struct read failed, or a result write failed
ValidationFailed == Has("arg_fail") \/ Has("write_fail")

\* C19: for a function with a declared error type every validation failure
\* is recoverable: the call ends at once, returning normally the ABI
\* encoding of the value GuestErrorConversion produced from the failure,
\* and never a trap or a panic.
C19_ValidationRecoverable ==
    (HasErrType(func) /\ ValidationFailed) =>
        /\ Done
        /\ gerr.cause = "validation"
        /\ gerr.out \in Errno
        /\ ret = OkRet(AbiFrom(gerr.out), "guest_err")
        /\ ret.kind \notin {"trap", "panic"}
        /\ Has("guest_conv") /\ ~Has("panic")

C19_Witness ==
    /\ Done /\ HasErrType(func)
    /\ Has("arg_fail") /\ func.params[FailedArg] = "struct"
    /\ ret = OkRet(28, "guest_err")

\* C20 as stated: every call eventually ends with exactly one final outcome,
\* a returned ABI value, the no-payload return or the trap signal, and once
\* it has ended nothing of the call changes any more.
C20_ReturnsOrTraps ==
    /\ <>Done
    /\ [](Done <=> ret # NoRet)
    /\ [](Done => ret.kind \in {"ok", "unit", "trap"})
    /\ [][Done => UNCHANGED vars]_vars

\* C20 amended: every call eventually ends with exactly one final outcome,
\* a returned ABI value, the no-payload return, the trap signal, or a panic
\* of the shim, the panic exactly when a validation failure met no declared
\* error type; the outcome is set in the step that ends the call, the scope
\* is closed by it, and once the call has ended no binding, handler call,
\* trace event, memory write or change of the outcome happens.
C20_ReturnsTrapsOrPanics ==
    /\ <>Done
    /\ [](Done <=> ret # NoRet)
    /\ [](Done => /\ ret.kind \in {"ok", "unit", "trap", "panic"}
                  /\ (ret.kind = "panic") <=> (~HasErrType(func) /\ ValidationFailed)
                  /\ (ret.kind = "trap") => (HandlerCalled /\ hres.kind \in {"trap", "err"})
                  /\ span = "closed"
                  /\ Cardinality(Named("span_exit")) = 1
                  /\ trace[Len(trace)] = Ev("span_exit", 0))
    /\ [][Done => UNCHANGED vars]_vars

C20_Witness ==
    /\ Done /\ ret = PanicRet
    /\ ~HasErrType(func) /\ ~func.noreturn
    /\ Has("arg_fail") /\ ~HandlerCalled
    /\ mem = InitMem

====
